---- MODULE Spec2Model ----
(***************************************************************************)
(* A model of rss_reader/summarizer.py: the Summarizer class, its lazily   *)
(* created provider client, summarize and summarize_batch.                 *)
(*                                                                         *)
(* One Summarizer instance is modelled.  Its configuration (provider,      *)
(* prompt_template) is fixed by the constructor; _client is the cached     *)
(* client slot.  Every thread t runs calls on that instance; the private   *)
(* variables of a call (article, client, message, ...) are functions of t. *)
(* Spec runs the calls one after the other on one thread, ConcSpec runs    *)
(* summarize calls of two threads interleaved at every access to _client.  *)
(***************************************************************************)
EXTENDS Integers, Sequences, FiniteSets, TLC

VARIABLES
    provider,         \* self.provider                      (line 11)
    prompt_template,  \* self.prompt_template               (line 17)
    _client,          \* self._client                       (line 19)
    pc,               \* pc[t]: where thread t is in the code
    article,          \* article[t]: the argument of the running summarize
    tmp,              \* tmp[t]: the client constructed, not yet stored (32, 39)
    client,           \* client[t]: the local `client` of _summarize_with_*
    message,          \* message[t]: what the provider's create() returned
    ret,              \* ret[t]: how the last summarize ended
    batch,            \* batch[t]: the frame of a running summarize_batch
    created,          \* history: every client constructed, in order
    stored,           \* history: every client written to _client, in order
    hist,             \* hist[t]: what the running summarize did so far
    calls             \* calls[t]: calls thread t has started

vars == <<provider, prompt_template, _client, pc, article, tmp, client,
          message, ret, batch, created, stored, hist, calls>>

-----------------------------------------------------------------------------
(* Bounds of the model *)

\* calls started by the thread of Spec
MaxCalls == 2
\* calls started by each thread of ConcSpec
MaxConcCalls == 1
\* length of the list handed to summarize_batch
MaxLen == 2

(* Program constants *)

\* `if len(article.content) < 100`
ShortLimit == 100
\* `max_articles: int = 10`
DefaultMaxArticles == 10

-----------------------------------------------------------------------------
(* Values *)

\* Python's None, and a str, as the values an Optional[str] takes
None == [none |-> TRUE, text |-> ""]
Str(s) == [none |-> FALSE, text |-> s]

\* self._client = None
NoClient == [type |-> "None", id |-> 0]

RECURSIVE Rep(_, _)
Rep(s, n) ==
    IF n = 0 THEN ""
    ELSE IF n % 2 = 0 THEN LET half == Rep(s, n \div 2) IN half \o half
    ELSE s \o Rep(s, n - 1)

Art(t, c) == [title |-> t, content |-> c]
NoArticle == Art("", "")

\* Article values: empty content, one character under the limit, exactly at
\* the limit, and well over it.
Articles ==
    { Art("A", ""),
      Art("B", Rep("b", ShortLimit - 1)),
      Art("C", Rep("c", ShortLimit)),
      Art("D", Rep("d", 2 * ShortLimit)) }

RECURSIVE SeqsUpTo(_, _)
SeqsUpTo(S, n) ==
    IF n = 0 THEN {<<>>}
    ELSE LET shorter == SeqsUpTo(S, n - 1)
         IN  shorter \cup {Append(s, x) : s \in {q \in shorter : Len(q) = n - 1}, x \in S}

ArticleLists == SeqsUpTo(Articles, MaxLen)

\* max_articles as the caller passes it: negative, zero, inside the list,
\* its length, and the default (beyond it)
MaxArticlesValues == (-1 .. MaxLen) \cup {DefaultMaxArticles}

Providers == {"claude", "openai", "mystery"}

\* A template is its parse: literal text and replacement fields {name}
Lit(s) == [field |-> FALSE, s |-> s]
Field(n) == [field |-> TRUE, s |-> n]

\* _default_prompt (the Chinese text is transliterated: TLA+ strings are ASCII)
_default_prompt ==
    << Lit("Summarise in 3-5 sentences. Title: "), Field("title"),
       Lit(" Content: "), Field("content"),
       Lit(" Highlight the core points.") >>

\* config['summary_prompt']: absent, a custom template, and a template
\* naming a field summarize does not pass to format
Templates ==
    { _default_prompt,
      << Lit("TL;DR "), Field("content") >>,
      << Lit("By "), Field("author"), Lit(": "), Field("title") >> }

\* the text `"暂无内容摘要"` of line 82, transliterated
Placeholder == "zan wu nei rong zhai yao"

Threads == {1, 2}
SeqThreads == {1}

-----------------------------------------------------------------------------
(* The outcomes of a summarize call *)

Return(v) == [kind |-> "return", value |-> v, exc |-> ""]
Raise(e) == [kind |-> "raise", value |-> None, exc |-> e]
NoRet == [kind |-> "none", value |-> None, exc |-> ""]

NoMessage == [api |-> "none", parts |-> <<>>]
NoBatch == [active |-> FALSE, articles |-> <<>>, max_articles |-> 0,
            todo |-> <<>>, results |-> <<>>, env |-> <<>>, outcome |-> "none"]
NoHist == [attempts |-> 0, ncalls |-> 0, env |-> "none", perr |-> "", prompt |-> ""]

Min(a, b) == IF a < b THEN a ELSE b
Max(a, b) == IF a > b THEN a ELSE b

-----------------------------------------------------------------------------
(* The pure parts of the code *)

\* articles[:max_articles]: a negative stop counts from the end of the list
Slice(articles, n) ==
    LET stop == IF n < 0 THEN Max(Len(articles) + n, 0) ELSE Min(n, Len(articles))
    IN  SubSeq(articles, 1, stop)

\* len(article.content) < 100
IsShort(content) == Len(content) < ShortLimit

\* the test of the conditional expression inverted
ShortCircuitInverted(content) == IF content = "" THEN Str(content) ELSE Str(Placeholder)

\* article.content if article.content else "..."
ShortCircuit(content) == IF content # "" THEN Str(content) ELSE Str(Placeholder)

\* self.prompt_template.format(title=article.title, content=article.content):
\* literal text is copied, {title} and {content} are replaced, any other
\* field raises KeyError
RECURSIVE Format(_, _)
Format(template, a) ==
    IF template = <<>> THEN [ok |-> TRUE, text |-> "", exc |-> ""]
    ELSE LET part == Head(template)
             rest == Format(Tail(template), a)
             piece == IF ~part.field THEN part.s
                      ELSE IF part.s = "title" THEN a.title
                      ELSE a.content
         IN  IF part.field /\ part.s \notin {"title", "content"}
                 THEN [ok |-> FALSE, text |-> "", exc |-> "KeyError"]
             ELSE IF ~rest.ok THEN rest
             ELSE [ok |-> TRUE, text |-> piece \o rest.text, exc |-> ""]

\* the if / elif / else on self.provider
Dispatch(p) ==
    IF p = "claude" THEN "claude"
    ELSE IF p = "openai" THEN "openai"
    ELSE "unknown"

\* a handler that logs and raises again
OnExceptionReraise(e) == Raise(e)

\* `except Exception as e: ... return None`
OnException(e) == Return(None)

\* the provider path outside any try block
TryNoCatch(r) == r

\* the try block around the provider path: what it ends with
Try(r) == IF r.kind = "raise" THEN OnException(r.exc) ELSE r

\* no test of the slot: a client per call
NeedsCreateAlways(slot) == TRUE

\* `if self._client is None`
NeedsCreate(slot) == slot = NoClient

\* anthropic.Anthropic(api_key=...), openai.OpenAI(api_key=..., base_url=...)
AnthropicClient(id) == [type |-> "Anthropic", id |-> id]
\* the Claude constructor pasted into _get_openai_client
OpenAIClientWrongType(id) == [type |-> "Anthropic", id |-> id]
OpenAIClient(id) == [type |-> "OpenAI", id |-> id]
NewClient(path, id) == IF path = "claude" THEN AnthropicClient(id) ELSE OpenAIClient(id)

\* a store that keeps a client another call stored meanwhile
StoreIfEmpty(slot, c) == IF slot = NoClient THEN c ELSE slot

\* `self._client = <the client constructed>`
StoreClient(slot, c) == c

\* What create() can return: a Claude message with its content blocks, an
\* OpenAI completion with its choices (a choice's content may be None).
Msg(api, parts) == [api |-> api, parts |-> parts]
Responses(path) ==
    IF path = "claude"
        THEN { Msg("claude", <<>>),
               Msg("claude", <<Str("S1")>>),
               Msg("claude", <<Str("S2"), Str("S1")>>) }
        ELSE { Msg("openai", <<>>),
               Msg("openai", <<Str("S1")>>),
               Msg("openai", <<Str("S2"), Str("S1")>>),
               Msg("openai", <<None>>) }

\* message.content[0].text, response.choices[0].message.content
Extract(m) ==
    IF Len(m.parts) = 0 THEN Raise("IndexError") ELSE Return(m.parts[1])

\* results.append((article, summary))
AppendResult(results, a, summary) == Append(results, <<a, summary>>)

-----------------------------------------------------------------------------
(* The state after Summarizer(config) *)

Init ==
    /\ provider \in Providers
    /\ prompt_template \in Templates
    /\ _client = NoClient
    /\ pc = [t \in Threads |-> "idle"]
    /\ article = [t \in Threads |-> NoArticle]
    /\ tmp = [t \in Threads |-> NoClient]
    /\ client = [t \in Threads |-> NoClient]
    /\ message = [t \in Threads |-> NoMessage]
    /\ ret = [t \in Threads |-> NoRet]
    /\ batch = [t \in Threads |-> NoBatch]
    /\ created = <<>>
    /\ stored = <<>>
    /\ hist = [t \in Threads |-> NoHist]
    /\ calls = [t \in Threads |-> 0]

-----------------------------------------------------------------------------
(* summarize *)

\* summarize(article) up to the first access to self._client: the length
\* test, the prompt, the choice of the provider path.  The prompt is built
\* before the try block, so what format raises leaves summarize.
Enter(t, a) ==
    LET f == Format(prompt_template, a)
        path == Dispatch(provider)
        out == IF IsShort(a.content) THEN Return(ShortCircuit(a.content))
               ELSE IF ~f.ok THEN Raise(f.exc)
               ELSE IF path = "unknown" THEN Return(None)
               ELSE NoRet
    IN  /\ article' = [article EXCEPT ![t] = a]
        /\ ret' = [ret EXCEPT ![t] = out]
        /\ pc' = [pc EXCEPT ![t] = IF out = NoRet THEN "get_client" ELSE "done"]
        /\ hist' = [hist EXCEPT ![t] =
                        [NoHist EXCEPT !.attempts = IF out = NoRet THEN 1 ELSE 0,
                                       !.prompt = IF IsShort(a.content) THEN "" ELSE f.text]]
        /\ tmp' = [tmp EXCEPT ![t] = NoClient]
        /\ client' = [client EXCEPT ![t] = NoClient]
        /\ message' = [message EXCEPT ![t] = NoMessage]

\* the call is over: its arguments and locals are gone
Leave(t) ==
    /\ article' = [article EXCEPT ![t] = NoArticle]
    /\ ret' = [ret EXCEPT ![t] = NoRet]
    /\ hist' = [hist EXCEPT ![t] = NoHist]
    /\ tmp' = [tmp EXCEPT ![t] = NoClient]
    /\ client' = [client EXCEPT ![t] = NoClient]
    /\ message' = [message EXCEPT ![t] = NoMessage]

\* A caller calls summarize(a), for any article a
Summarize(t, limit) ==
    /\ pc[t] = "idle"
    /\ calls[t] < limit
    /\ calls' = [calls EXCEPT ![t] = @ + 1]
    /\ \E a \in Articles : Enter(t, a)
    /\ UNCHANGED <<provider, prompt_template, _client, batch, created, stored>>

\* _get_claude_client / _get_openai_client: `if self._client is None`
GetClient(t) ==
    /\ pc[t] = "get_client"
    /\ pc' = [pc EXCEPT ![t] = IF NeedsCreate(_client) THEN "construct" ELSE "return_client"]
    /\ UNCHANGED <<provider, prompt_template, _client, article, tmp, client,
                   message, ret, batch, created, stored, hist, calls>>

\* the import and the constructor succeed: a new client, not yet stored
ConstructClient(t) ==
    /\ pc[t] = "construct"
    /\ LET c == NewClient(Dispatch(provider), Len(created) + 1)
       IN  /\ tmp' = [tmp EXCEPT ![t] = c]
           /\ created' = Append(created, c)
    /\ pc' = [pc EXCEPT ![t] = "store"]
    /\ UNCHANGED <<provider, prompt_template, _client, article, client,
                   message, ret, batch, stored, hist, calls>>

\* the import or the constructor raises (package missing, no api key)
ConstructFails(t) ==
    /\ pc[t] = "construct"
    /\ ret' = [ret EXCEPT ![t] = Try(Raise("ClientError"))]
    /\ hist' = [hist EXCEPT ![t].env = "create_failed", ![t].perr = "ClientError"]
    /\ pc' = [pc EXCEPT ![t] = "done"]
    /\ UNCHANGED <<provider, prompt_template, _client, article, tmp, client,
                   message, batch, created, stored, calls>>

\* `self._client = ...`
StoreClientStep(t) ==
    /\ pc[t] = "store"
    /\ _client' = StoreClient(_client, tmp[t])
    /\ stored' = Append(stored, tmp[t])
    /\ pc' = [pc EXCEPT ![t] = "return_client"]
    /\ UNCHANGED <<provider, prompt_template, article, tmp, client,
                   message, ret, batch, created, hist, calls>>

\* `return self._client`, bound to `client` by the caller
ReturnClient(t) ==
    /\ pc[t] = "return_client"
    /\ client' = [client EXCEPT ![t] = _client]
    /\ pc' = [pc EXCEPT ![t] = "call"]
    /\ UNCHANGED <<provider, prompt_template, _client, article, tmp,
                   message, ret, batch, created, stored, hist, calls>>

\* client.messages.create / client.chat.completions.create raises
ProviderRaises(t) ==
    /\ pc[t] = "call"
    /\ ret' = [ret EXCEPT ![t] = Try(Raise("APIError"))]
    /\ hist' = [hist EXCEPT ![t].ncalls = @ + 1, ![t].env = "call_raised",
                            ![t].perr = "APIError"]
    /\ pc' = [pc EXCEPT ![t] = "done"]
    /\ UNCHANGED <<provider, prompt_template, _client, article, tmp, client,
                   message, batch, created, stored, calls>>

\* create returns some m; the summary is read from it inside the try block
ProviderResponds(t) ==
    /\ pc[t] = "call"
    /\ \E m \in Responses(Dispatch(provider)) :
           /\ message' = [message EXCEPT ![t] = m]
           /\ ret' = [ret EXCEPT ![t] = Try(Extract(m))]
           /\ hist' = [hist EXCEPT ![t].ncalls = @ + 1, ![t].env = "responded",
                                   ![t].perr = Extract(m).exc]
    /\ pc' = [pc EXCEPT ![t] = "done"]
    /\ UNCHANGED <<provider, prompt_template, _client, article, tmp, client,
                   batch, created, stored, calls>>

\* summarize, called on its own, has handed its outcome to the caller
SummarizeEnds(t) ==
    /\ pc[t] = "done"
    /\ ~batch[t].active
    /\ pc' = [pc EXCEPT ![t] = "idle"]
    /\ Leave(t)
    /\ UNCHANGED <<provider, prompt_template, _client, batch, created, stored, calls>>

-----------------------------------------------------------------------------
(* summarize_batch *)

\* A caller calls summarize_batch(articles, n), for any list and any n:
\* `results = []` and the slice
SummarizeBatch(t, limit) ==
    /\ pc[t] = "idle"
    /\ calls[t] < limit
    /\ calls' = [calls EXCEPT ![t] = @ + 1]
    /\ \E articles \in ArticleLists, n \in MaxArticlesValues :
           batch' = [batch EXCEPT ![t] =
                       [active |-> TRUE, articles |-> articles, max_articles |-> n,
                        todo |-> Slice(articles, n), results |-> <<>>, env |-> <<>>,
                        outcome |-> "running"]]
    /\ pc' = [pc EXCEPT ![t] = "loop"]
    /\ article' = [article EXCEPT ![t] = NoArticle]
    /\ ret' = [ret EXCEPT ![t] = NoRet]
    /\ hist' = [hist EXCEPT ![t] = NoHist]
    /\ tmp' = [tmp EXCEPT ![t] = NoClient]
    /\ client' = [client EXCEPT ![t] = NoClient]
    /\ message' = [message EXCEPT ![t] = NoMessage]
    /\ UNCHANGED <<provider, prompt_template, _client, created, stored>>

\* the for loop takes the next article: `summary = self.summarize(article)`
BatchNext(t) ==
    /\ pc[t] = "loop"
    /\ Len(batch[t].results) < Len(batch[t].todo)
    /\ Enter(t, batch[t].todo[Len(batch[t].results) + 1])
    /\ UNCHANGED <<provider, prompt_template, _client, batch, created, stored, calls>>

\* summarize returned: `results.append((article, summary))`
BatchAppend(t) ==
    /\ pc[t] = "done"
    /\ batch[t].active
    /\ ret[t].kind = "return"
    /\ batch' = [batch EXCEPT
                    ![t].results = AppendResult(@, article[t], ret[t].value),
                    ![t].env = Append(@, [env |-> hist[t].env, message |-> message[t]])]
    /\ pc' = [pc EXCEPT ![t] = "loop"]
    /\ UNCHANGED <<provider, prompt_template, _client, article, tmp, client,
                   message, ret, created, stored, hist, calls>>

\* summarize raised: nothing in summarize_batch catches it
BatchRaises(t) ==
    /\ pc[t] = "done"
    /\ batch[t].active
    /\ ret[t].kind = "raise"
    /\ batch' = [batch EXCEPT ![t].outcome = "raised"]
    /\ pc' = [pc EXCEPT ![t] = "batch_done"]
    /\ UNCHANGED <<provider, prompt_template, _client, article, tmp, client,
                   message, ret, created, stored, hist, calls>>

\* the loop is over: `return results`
BatchReturn(t) ==
    /\ pc[t] = "loop"
    /\ Len(batch[t].results) = Len(batch[t].todo)
    /\ batch' = [batch EXCEPT ![t].outcome = "returned"]
    /\ pc' = [pc EXCEPT ![t] = "batch_done"]
    /\ UNCHANGED <<provider, prompt_template, _client, article, tmp, client,
                   message, ret, created, stored, hist, calls>>

\* the caller has the list (or the exception); the frame is gone
BatchEnds(t) ==
    /\ pc[t] = "batch_done"
    /\ batch' = [batch EXCEPT ![t] = NoBatch]
    /\ pc' = [pc EXCEPT ![t] = "idle"]
    /\ Leave(t)
    /\ UNCHANGED <<provider, prompt_template, _client, created, stored, calls>>

-----------------------------------------------------------------------------
(* Specifications *)

\* the steps of a running summarize
SummarizeStep(t) ==
    \/ GetClient(t)
    \/ ConstructClient(t)
    \/ ConstructFails(t)
    \/ StoreClientStep(t)
    \/ ReturnClient(t)
    \/ ProviderRaises(t)
    \/ ProviderResponds(t)
    \/ SummarizeEnds(t)

\* Calls that do not overlap: one thread, one call after the other
Next ==
    \E t \in SeqThreads :
        \/ Summarize(t, MaxCalls)
        \/ SummarizeBatch(t, MaxCalls)
        \/ SummarizeStep(t)
        \/ BatchNext(t)
        \/ BatchAppend(t)
        \/ BatchRaises(t)
        \/ BatchReturn(t)
        \/ BatchEnds(t)

Spec == Init /\ [][Next]_vars

\* summarize calls of two threads on the one instance, interleaved
NextConc ==
    \E t \in Threads :
        \/ Summarize(t, MaxConcCalls)
        \/ SummarizeStep(t)

ConcSpec == Init /\ [][NextConc]_vars

-----------------------------------------------------------------------------
(* Properties *)

Range(s) == {s[i] : i \in 1..Len(s)}
Supported == {"claude", "openai"}
Long(a) == Len(a.content) >= ShortLimit

\* C1: when summarize_batch(articles, N) returns, the list has
\* min(len(articles), N) pairs (none when that is negative) and the i-th pair
\* holds the i-th article.
C1_BatchCoversPrefix ==
    \A t \in Threads :
        (pc[t] = "batch_done" /\ batch[t].outcome = "returned") =>
            LET b == batch[t]
                k == Max(0, Min(Len(b.articles), b.max_articles))
            IN  /\ Len(b.results) = k
                /\ \A i \in 1..k : b.results[i][1] = b.articles[i]

\* C2: no summarize call ends with an exception, and no summarize_batch call
\* does.
C2_NoExceptionLeaves ==
    \A t \in Threads :
        /\ (pc[t] = "done" => ret[t].kind = "return")
        /\ batch[t].outcome # "raised"

\* C3: a summarize call whose provider path raised (constructing the client,
\* in create, or reading the first block or choice) returns None.
C3_ProviderErrorGivesNone ==
    \A t \in Threads :
        (pc[t] = "done" /\ hist[t].perr # "") => ret[t] = Return(None)

C3_Witness ==
    \E t \in Threads :
        /\ pc[t] = "done"
        /\ Long(article[t])
        /\ provider = "claude"
        /\ hist[t].perr = "IndexError"
        /\ ret[t] = Return(None)

\* C4: a summarize call on content under 100 characters enters no provider
\* path, makes no call and constructs no client, whatever the provider, and
\* returns the content, or the placeholder when the content is empty.
C4_ShortContentShortCircuits ==
    \A t \in Threads :
        (pc[t] = "done" /\ Len(article[t].content) < ShortLimit) =>
            /\ hist[t].attempts = 0
            /\ hist[t].ncalls = 0
            /\ tmp[t] = NoClient /\ client[t] = NoClient
            /\ ret[t] = Return(Str(IF article[t].content = "" THEN Placeholder
                                    ELSE article[t].content))

C4_Witness ==
    \E t \in Threads :
        /\ pc[t] = "done"
        /\ provider = "mystery"
        /\ Len(article[t].content) = ShortLimit - 1
        /\ ret[t] = Return(Str(article[t].content))

\* C5: with a provider other than claude and openai, a summarize call on
\* content of 100 characters or more returns None and makes no provider call.
C5_UnknownProviderGivesNone ==
    \A t \in Threads :
        (pc[t] = "done" /\ provider \notin Supported /\ Long(article[t])) =>
            /\ ret[t] = Return(None)
            /\ hist[t].attempts = 0
            /\ hist[t].ncalls = 0

\* What summarize gives for article a on its own when the provider behaves
\* as e records: the constructor failed, create raised, or create answered.
OwnResult(a, e) ==
    IF ~Long(a) THEN Str(IF a.content = "" THEN Placeholder ELSE a.content)
    ELSE IF provider \notin Supported THEN None
    ELSE IF e.env # "responded" THEN None
    ELSE IF e.message.parts = <<>> THEN None
    ELSE e.message.parts[1]

ProviderFailed(e) ==
    \/ e.env \in {"create_failed", "call_raised"}
    \/ e.env = "responded" /\ e.message.parts = <<>>

\* C6: in summarize_batch a failed provider call ends neither the item's
\* summarize nor the batch with an exception (a batch that raised did so on
\* an item whose provider path raised nothing), every pair holds the article
\* and what summarize gives for it on its own, and a batch that returns has
\* a pair for every article of the prefix, those after a failed one included.
C6_BatchItemsIndependent ==
    \A t \in Threads :
        batch[t].active =>
            LET b == batch[t]
            IN  /\ Len(b.results) = Len(b.env)
                /\ Len(b.results) <= Len(b.todo)
                /\ \A i \in 1..Len(b.results) :
                       b.results[i] = <<b.todo[i], OwnResult(b.todo[i], b.env[i])>>
                /\ (pc[t] = "done" /\ hist[t].perr # "") => ret[t].kind = "return"
                /\ b.outcome = "raised" => hist[t].perr = ""
                /\ b.outcome = "returned" => Len(b.results) = Len(b.todo)

C6_Witness ==
    \E t \in Threads :
        /\ batch[t].outcome = "returned"
        /\ Len(batch[t].results) = 2
        /\ ProviderFailed(batch[t].env[1])
        /\ batch[t].env[1].env = "call_raised"
        /\ batch[t].results[1][2] = None
        /\ batch[t].results[2][2] = Str("S1")

\* C7 as stated: at most one client is constructed, a call that entered the
\* provider path has left the slot initialized when it ends, a provider call
\* uses the one client constructed, and the slot keeps the first client
\* stored.
C7_FirstCallInitializes ==
    /\ Len(created) <= 1
    /\ Len(stored) <= 1
    /\ stored # <<>> => _client = stored[1]
    /\ \A t \in SeqThreads :
           /\ (pc[t] = "done" /\ hist[t].attempts = 1) => _client # NoClient
           /\ pc[t] = "call" => (created # <<>> /\ client[t] = created[1])

\* C7 amended: at most one client is constructed; a call that entered the
\* provider path and whose constructor did not raise has left the slot
\* initialized when it ends, a call whose constructor raised leaves it
\* uninitialized; a provider call uses the one client constructed; the slot
\* keeps the first client stored.
C7_ClientCreatedAtMostOnce ==
    /\ Len(created) <= 1
    /\ Len(stored) <= 1
    /\ stored # <<>> => _client = stored[1]
    /\ stored = <<>> => _client = NoClient
    /\ \A t \in SeqThreads :
           /\ (pc[t] = "done" /\ hist[t].attempts = 1 /\ hist[t].env # "create_failed")
                  => (_client # NoClient /\ created = <<_client>>)
           /\ (pc[t] = "done" /\ hist[t].env = "create_failed")
                  => (_client = NoClient /\ created = <<>>)
           /\ (pc[t] = "call" \/ (pc[t] = "done" /\ hist[t].ncalls > 0))
                  => (created # <<>> /\ client[t] = created[1] /\ client[t] = _client)

\* a second call that found the client cached and constructed none
C7_Witness ==
    \E t \in SeqThreads :
        /\ calls[t] = 2
        /\ ~batch[t].active
        /\ pc[t] = "done"
        /\ hist[t].env = "responded"
        /\ tmp[t] = NoClient
        /\ client[t] = created[1]

ClientTypeOf(p) == IF p = "claude" THEN "Anthropic" ELSE IF p = "openai" THEN "OpenAI" ELSE "no client"

\* C8 as stated: in every state the instance has one client, of the type of
\* the configured provider.
C8_ExactlyOneClient ==
    /\ _client # NoClient
    /\ _client.type = ClientTypeOf(provider)
    /\ Len(created) = 1

\* C8 amended: in every state the instance has at most one client: none
\* until the first constructor call that succeeds (never one for an
\* unsupported provider), from then on that one, of the type of the
\* configured provider.
C8_AtMostOneMatchingClient ==
    /\ Len(created) <= 1
    /\ \A c \in Range(created) : c.type = ClientTypeOf(provider)
    /\ _client \in {NoClient} \cup Range(created)
    /\ stored # <<>> => _client = created[1]
    /\ provider \notin Supported => created = <<>>

C8_Witness ==
    /\ provider = "openai"
    /\ _client # NoClient
    /\ _client.type = "OpenAI"
    /\ \E t \in SeqThreads : pc[t] = "idle" /\ calls[t] = 2

\* C9: a summarize call on content of 100 characters or more with a
\* supported provider enters the provider path once and calls create at
\* most once.
C9_OneAttemptPerCall ==
    \A t \in Threads :
        (pc[t] = "done" /\ Long(article[t]) /\ provider \in Supported) =>
            /\ hist[t].attempts = 1
            /\ hist[t].ncalls <= 1

AllFinished == \A t \in Threads : pc[t] = "done"

\* C10: when the overlapping calls have finished, every client constructed
\* was stored, there are at most as many as calls that found the slot empty
\* (two), each call used a constructed client, and the slot holds the client
\* stored last.
C10_SlotHoldsLastStored ==
    AllFinished =>
        /\ Len(created) <= Cardinality(Threads)
        /\ Range(stored) = Range(created)
        /\ Len(stored) = Len(created)
        /\ \A t \in Threads : client[t] \in {NoClient} \cup Range(created)
        /\ _client = IF stored = <<>> THEN NoClient ELSE stored[Len(stored)]

\* both calls found the slot empty, two clients were constructed, the calls
\* used different ones, and the slot holds the one stored last
C10_Witness ==
    /\ AllFinished
    /\ Len(created) = 2
    /\ client[1] # NoClient /\ client[2] # NoClient
    /\ client[1] # client[2]
    /\ _client = stored[2]
    /\ _client # stored[1]

====
